---- MODULE Spec2Model ----
(***************************************************************************)
(* Time tracking (timeController: startTimeTracking, stopTimeTracking) and *)
(* productivity metrics (statisticsController: getProductivityMetrics) of  *)
(* the task manager backend, over a table store queried through supabase.  *)
(***************************************************************************)
EXTENDS Integers, Sequences, FiniteSets, TLC

\* ---------------------------------------------------------------- bounds
MaxReq   == 3        \* requests issued in one behaviour
MaxClock == 1        \* largest value of the wall clock
Procs    == {1, 2}   \* requests that can be in flight at once
MaxTasks == 3        \* completed tasks a productivity query returns
MaxDay   == 4        \* calendar days 0..MaxDay
DayLen   == 2        \* clock units in one calendar day (1000*60*60*24 ms)
MaxJoin  == 2        \* join messages one socket sends
MaxCalls == 3        \* task and statistics requests in one behaviour
MaxPub   == 1        \* calls of the emit methods of SocketService in one behaviour
MaxTS    == 3        \* rows of tasks a statistics request runs against
MaxEnt   == 2        \* rows of time_entries a time report runs against
MaxTime  == 3        \* largest timestamp of such a row

\* ------------------------------------------------------- store contents
Users      == {"u1", "u2"}
TaskIds    == {"t1", "t2"}
ReqTaskIds == TaskIds \cup {"t0"}    \* ids a request may name; t0 is no task

Null  == -1      \* end_time IS NULL
NoRow == 0       \* data: null of a supabase result

VARIABLES
  tasks,        \* table tasks: set of rows [id, user_id]
  entries,      \* table time_entries: sequence of rows, id = position
  storeUnique,  \* the deployed table rejects a second open entry of a task
  proc,         \* the request each handler invocation is serving, its locals
  clock,        \* new Date()
  events,       \* what SocketService has emitted, in order
  nreq,         \* number of requests issued so far
  res,          \* the response sent last, with what that request met
  lastStart,    \* the successful start answered last
  pm,           \* the getProductivityMetrics invocation: its input and locals
  io,           \* SocketService.io is set (initialize has run)
  conns,        \* the client connections of the socket server
  tstat,           \* the getTaskStatistics invocation
  trep,           \* the getTimeStatistics / getTimeReport invocation
  treq,         \* the task request being served, then its response
  ncall         \* number of task and statistics requests, or of emit calls, so far

vars == <<io, conns, tstat, trep, treq, ncall, pm, tasks, entries, storeUnique, proc, clock, events, nreq, res, lastStart>>

\* supabase .single(): data only when exactly one row matches
SingleOk(rows) == Cardinality(rows) = 1

TaskRowsAnyUser(tk, id, u) == {t \in tk : t.id = id}

\* .from('tasks').select('id').eq('id', task_id).eq('user_id', userId)
TaskRows(tk, id, u) == {t \in tk : t.id = id /\ t.user_id = u}

\* .from('time_entries').select('*').eq('task_id').eq('user_id').is('end_time', null)
OpenRowsAnyTask(es, t, u) ==
  {i \in 1..Len(es) : es[i].user_id = u /\ es[i].end_time = Null}

OpenRows(es, t, u) ==
  {i \in 1..Len(es) : es[i].task_id = t /\ es[i].user_id = u /\ es[i].end_time = Null}

TaskEntries(es, t) == {i \in 1..Len(es) : es[i].task_id = t}
OpenOfTask(es, t)  == {i \in 1..Len(es) : es[i].task_id = t /\ es[i].end_time = Null}

\* ------------------------------------------- getProductivityMetrics
Times == 0..((MaxDay + 1) * DayLen - 1)

\* new Date(task.updated_at).toLocaleDateString(): the calendar date of a
\* timestamp (server locale en-US, no daylight saving)
DateOf(ts) == ts \div DayLen

\* new Date(date): a date string parses to local midnight of that day
Midnight(day) == day * DayLen

\* Math.floor((a.getTime() - b.getTime()) / (1000 * 60 * 60 * 24))
DiffDays(a, b) == (a - b) \div DayLen

RECURSIVE TasksPerDayFlag(_)
TasksPerDayFlag(rows) ==
  IF rows = << >> THEN << >>
  ELSE LET acc == TasksPerDayFlag(SubSeq(rows, 1, Len(rows) - 1))
           day == DateOf(rows[Len(rows)])
       IN [d \in (DOMAIN acc) \cup {day} |-> IF d = day THEN 1 ELSE acc[d]]

\* lines 182-186: completedTasks.reduce((acc, task) => acc[day] = (acc[day] || 0) + 1, {})
RECURSIVE TasksPerDay(_)
TasksPerDay(rows) ==
  IF rows = << >> THEN << >>
  ELSE LET acc == TasksPerDay(SubSeq(rows, 1, Len(rows) - 1))
           day == DateOf(rows[Len(rows)])
       IN [d \in (DOMAIN acc) \cup {day} |->
             IF d = day THEN (IF day \in DOMAIN acc THEN acc[day] ELSE 0) + 1
                        ELSE acc[d]]

\* lines 189-192: uniqueDays > 0 ? completedTasks.length / uniqueDays : 0, as a fraction
AverageTasksPerDay(n, uniqueDays) ==
  IF uniqueDays > 0 THEN [num |-> n, den |-> uniqueDays] ELSE [num |-> 0, den |-> 1]

\* lines 195-196: Object.keys(tasksPerDay).map(date => new Date(date)), sorted ascending
RECURSIVE SortedDates(_)
SortedDates(days) ==
  IF days = {} THEN << >>
  ELSE LET m == CHOOSE d \in days : \A e \in days : d <= e
       IN <<Midnight(m)>> \o SortedDates(days \ {m})

Max(a, b) == IF a >= b THEN a ELSE b

CurrentStreakStale(diffDays, tempStreak) == tempStreak

\* line 224: diffDays <= 1 ? tempStreak : 0
CurrentStreak(diffDays, tempStreak) == IF diffDays <= 1 THEN tempStreak ELSE 0

NoBody ==
  [total_completed_tasks |-> 0, tasks_per_day |-> << >>,
   average_tasks_per_day |-> [num |-> 0, den |-> 1],
   current_streak |-> 0, longest_streak |-> 0]

PMIdle ==
  [pc |-> "idle", rows |-> << >>, now |-> 0, fault |-> FALSE, completedTasks |-> << >>,
   tasksPerDay |-> << >>, averageTasksPerDay |-> [num |-> 0, den |-> 1],
   dates |-> << >>, i |-> 0, tempStreak |-> 0, longestStreak |-> 0,
   status |-> 0, body |-> NoBody]

RECURSIVE SeqsUpTo(_, _)
SeqsUpTo(S, n) ==
  IF n = 0 THEN {<< >>}
  ELSE LET shorter == SeqsUpTo(S, n - 1)
       IN shorter \cup {Append(q, x) : q \in {r \in shorter : Len(r) = n - 1}, x \in S}

\* the handlers of the reports and of the task requests, at rest
TSIdle == [pc |-> "idle", user |-> "u1", start_date |-> Null, end_date |-> Null,
           status |-> 0, body |-> << >>]

\* the answer of an earlier getTimeEntries request, none yet
NoPrev == [status |-> 0, body |-> << >>]

TRIdle == [pc |-> "idle", op |-> "none", user |-> "u1", start_date |-> Null,
           end_date |-> Null, status |-> 0, body |-> << >>,
           task |-> "t0", prev |-> NoPrev]

NoTaskReq == [pc |-> "idle", op |-> "none", user |-> "u1", id |-> 0,
              priority |-> "low", newStatus |-> "pending", status |-> 0, removed |-> 0]

\* ------------------------------------------------------ SocketService
\* the sum of the values of a function
RECURSIVE SumOver(_)
SumOver(f) ==
  IF DOMAIN f = {} THEN 0
  ELSE LET d == CHOOSE x \in DOMAIN f : TRUE
       IN f[d] + SumOver([x \in (DOMAIN f) \ {d} |-> f[x]])

ConnIds == {1, 2}

AllRoom == "*"      \* io.emit: every connected socket

\* a client connection: its socket is live or not, the join messages the
\* socket has handled per user id, and the events the client has received
\* (positions in events)
NoConn == [live |-> FALSE, joined |-> [u \in Users |-> 0], inbox |-> << >>]

\* socket.join(`user_${userId}`): the rooms of a socket are a set
InRoom(c, room) == room = AllRoom \/ (room \in Users /\ c.joined[room] > 0)

RECURSIVE Times2(_, _, _)
Times2(q, x, n) == IF n = 0 THEN q ELSE Times2(Append(q, x), x, n - 1)

DeliverPerJoin(cs, room, id) ==
  [c \in DOMAIN cs |->
     IF cs[c].live /\ InRoom(cs[c], room)
       THEN [cs[c] EXCEPT !.inbox =
               Times2(@, id, IF room = AllRoom THEN 1 ELSE cs[c].joined[room])]
       ELSE cs[c]]

\* io.to(room).emit(...) / io.emit(...): one packet to every live socket of
\* the room, nothing kept for anyone else
Deliver(cs, room, id) ==
  [c \in DOMAIN cs |->
     IF cs[c].live /\ InRoom(cs[c], room)
       THEN [cs[c] EXCEPT !.inbox = Append(@, id)]
       ELSE cs[c]]

\* -------------------------------------------------- time tracking
\* a handler invocation: req.params.task_id, req.user.id and its locals; rows
\* and fault record what its lookup met, seq, fresh and cnt0 the store it was
\* issued on
IdleProc ==
  [pc |-> "idle", op |-> "none", task |-> "t0", user |-> "u1", rows |-> 0,
   entry |-> NoRow, time |-> Null, fault |-> FALSE, seq |-> 0, fresh |-> FALSE,
   cnt0 |-> 0]

NoRes ==
  [op |-> "none", status |-> 0, rows |-> 0, fault |-> FALSE, ierr |-> "none",
   owned |-> FALSE, entry |-> NoRow, time |-> Null, seq |-> 0, foreign |-> FALSE]

NoStart == [entry |-> NoRow, time |-> Null, seq |-> 0, fresh |-> FALSE, cnt0 |-> 0]

InFlight(p) == proc[p].pc # "idle"

Init ==
  /\ tasks = {[id |-> "t1", user_id |-> "u1"], [id |-> "t2", user_id |-> "u1"]}
  /\ entries = << >>
  /\ storeUnique \in BOOLEAN
  /\ proc = [p \in Procs |-> IdleProc]
  /\ clock = 0
  /\ events = << >>
  /\ nreq = 0
  /\ res = NoRes
  /\ lastStart = NoStart
  /\ pm = PMIdle
  /\ io = TRUE
  /\ conns = [c \in ConnIds |-> NoConn]
  /\ tstat = TSIdle
  /\ trep = TRIdle
  /\ treq = NoTaskReq
  /\ ncall = 0

\* a request reaches its handler: router.post('/tasks/:task_id/start' | 'stop');
\* the invocations are interchangeable, so the lowest free one serves it
Call(p, op, t, u) ==
  /\ ~InFlight(p)
  /\ \A q \in Procs : q < p => InFlight(q)
  /\ nreq < MaxReq
  /\ proc' = [proc EXCEPT ![p] =
        [IdleProc EXCEPT !.pc = IF op = "start" THEN "task" ELSE "find",
                         !.op = op, !.task = t, !.user = u,
                         !.seq = nreq + 1,
                         !.fresh = /\ op = "start"
                                   /\ OpenOfTask(entries, t) = {}
                                   /\ \A q \in Procs \ {p} : ~(InFlight(q) /\ proc[q].task = t),
                         !.cnt0 = IF op = "start" THEN Cardinality(TaskEntries(entries, t)) ELSE 0]]
  /\ nreq' = nreq + 1
  /\ UNCHANGED <<io, conns, tstat, trep, treq, ncall, pm, tasks, entries, storeUnique, clock, events, res, lastStart>>

\* res.status(code).json(...): the answer of the request p serves
Respond(p, code) ==
  [NoRes EXCEPT !.op = proc[p].op, !.status = code, !.rows = proc[p].rows,
                !.fault = proc[p].fault, !.seq = proc[p].seq,
                !.foreign = \E t \in tasks : t.id = proc[p].task /\ t.user_id # proc[p].user]

Return(p) == [proc EXCEPT ![p] = IdleProc]

\* startTimeTracking, lines 11-22: task lookup
StartTaskLookup(p) ==
  /\ proc[p].pc = "task"
  /\ \E fail \in BOOLEAN :
       LET rows == TaskRows(tasks, proc[p].task, proc[p].user)
           task == ~fail /\ SingleOk(rows)
       IN IF task
            THEN /\ proc' = [proc EXCEPT ![p].pc = "open"]
                 /\ UNCHANGED res
            ELSE /\ res' = [Respond(p, 404) EXCEPT !.fault = fail, !.owned = rows # {}]
                 /\ proc' = Return(p)
  /\ UNCHANGED <<io, conns, tstat, trep, treq, ncall, pm, tasks, entries, storeUnique, clock, events, nreq, lastStart>>

\* startTimeTracking, lines 24-39: open-entry lookup, then startTime = now
StartOpenLookup(p) ==
  /\ proc[p].pc = "open"
  /\ \E fail \in BOOLEAN :
       LET rows == OpenRows(entries, proc[p].task, proc[p].user)
           activeEntry == ~fail /\ SingleOk(rows)
       IN IF activeEntry
            THEN /\ res' = [Respond(p, 400) EXCEPT !.rows = Cardinality(rows), !.owned = TRUE]
                 /\ proc' = Return(p)
            ELSE /\ proc' = [proc EXCEPT ![p] =
                       [proc[p] EXCEPT !.pc = "insert", !.rows = Cardinality(rows),
                                       !.fault = fail, !.time = clock]]
                 /\ UNCHANGED res
  /\ UNCHANGED <<io, conns, tstat, trep, treq, ncall, pm, tasks, entries, storeUnique, clock, events, nreq, lastStart>>

\* the row insert([{task_id, user_id, start_time}]).select().single() returns
NewEntry(es, t, u, st) ==
  [id |-> Len(es) + 1, task_id |-> t, user_id |-> u, start_time |-> st, end_time |-> Null]

EmitBroadcast(evs, name, e) == Append(evs, [name |-> name, room |-> AllRoom, payload |-> e])

\* emitTimeTrackingStarted / emitTimeTrackingStopped: io.to(`user_${user_id}`).emit
Emit(evs, name, e) == Append(evs, [name |-> name, room |-> e.user_id, payload |-> e])

\* socketService.ts lines 64-74: if (!this.io) return; otherwise the event
\* goes to the sockets of the room user_${timeEntry.user_id}
EmitTimeTracking(name, e) ==
  IF io THEN /\ events' = Emit(events, name, e)
             /\ conns' = Deliver(conns, e.user_id, Len(events) + 1)
        ELSE UNCHANGED <<events, conns>>

\* startTimeTracking, lines 40-66: insert, emit, respond
StartInsert(p) ==
  /\ proc[p].pc = "insert"
  /\ \E fail \in BOOLEAN :
       LET rejected == storeUnique /\ OpenOfTask(entries, proc[p].task) # {}
           e == NewEntry(entries, proc[p].task, proc[p].user, proc[p].time)
       IN IF fail \/ rejected
            THEN /\ res' = [Respond(p, 500) EXCEPT !.owned = TRUE,
                               !.ierr = IF rejected THEN "AlreadyOpen" ELSE "other"]
                 /\ UNCHANGED <<entries, events, conns, lastStart>>
            ELSE /\ entries' = Append(entries, e)
                 /\ EmitTimeTracking("time:started", e)
                 /\ res' = [Respond(p, 200) EXCEPT !.owned = TRUE, !.entry = e.id,
                                                   !.time = proc[p].time]
                 /\ lastStart' = [entry |-> e.id, time |-> proc[p].time, seq |-> proc[p].seq,
                                  fresh |-> proc[p].fresh, cnt0 |-> proc[p].cnt0]
  /\ proc' = Return(p)
  /\ UNCHANGED <<io, tstat, trep, treq, ncall, pm, tasks, storeUnique, clock, nreq>>

StopFindAnyUser(p) ==
  /\ proc[p].pc = "find"
  /\ \E fail \in BOOLEAN :
       LET rows == OpenOfTask(entries, proc[p].task)
           timeEntry == ~fail /\ SingleOk(rows)
       IN IF timeEntry
            THEN /\ proc' = [proc EXCEPT ![p] =
                       [proc[p] EXCEPT !.pc = "update", !.rows = Cardinality(rows),
                                       !.entry = CHOOSE i \in rows : TRUE, !.time = clock]]
                 /\ UNCHANGED res
            ELSE /\ res' = [Respond(p, 404) EXCEPT !.rows = Cardinality(rows), !.fault = fail]
                 /\ proc' = Return(p)
  /\ UNCHANGED <<io, conns, tstat, trep, treq, ncall, pm, tasks, entries, storeUnique, clock, events, nreq, lastStart>>

\* stopTimeTracking, lines 74-89: find the open entry, then endTime = now
StopFind(p) ==
  /\ proc[p].pc = "find"
  /\ \E fail \in BOOLEAN :
       LET rows == OpenRows(entries, proc[p].task, proc[p].user)
           timeEntry == ~fail /\ SingleOk(rows)
       IN IF timeEntry
            THEN /\ proc' = [proc EXCEPT ![p] =
                       [proc[p] EXCEPT !.pc = "update", !.rows = Cardinality(rows),
                                       !.entry = CHOOSE i \in rows : TRUE, !.time = clock]]
                 /\ UNCHANGED res
            ELSE /\ res' = [Respond(p, 404) EXCEPT !.rows = Cardinality(rows), !.fault = fail]
                 /\ proc' = Return(p)
  /\ UNCHANGED <<io, conns, tstat, trep, treq, ncall, pm, tasks, entries, storeUnique, clock, events, nreq, lastStart>>

CloseEntryAtStart(es, id, et) == [es EXCEPT ![id].end_time = es[id].start_time]

\* .update({ end_time: endTime }).eq('id', timeEntry.id)
CloseEntry(es, id, et) == [es EXCEPT ![id].end_time = et]

\* stopTimeTracking, lines 90-111: update, emit, respond
StopUpdate(p) ==
  /\ proc[p].pc = "update"
  /\ \E fail \in BOOLEAN :
       IF fail
         THEN /\ res' = [Respond(p, 500) EXCEPT !.ierr = "other"]
              /\ UNCHANGED <<entries, events, conns>>
         ELSE LET es == CloseEntry(entries, proc[p].entry, proc[p].time)
              IN /\ entries' = es
                 /\ EmitTimeTracking("time:stopped", es[proc[p].entry])
                 /\ res' = [Respond(p, 200) EXCEPT !.entry = proc[p].entry,
                                                   !.time = proc[p].time]
  /\ proc' = Return(p)
  /\ UNCHANGED <<io, tstat, trep, treq, ncall, pm, tasks, storeUnique, clock, nreq, lastStart>>

\* time passes
Tick ==
  /\ clock < MaxClock
  /\ clock' = clock + 1
  /\ UNCHANGED <<io, conns, tstat, trep, treq, ncall, pm, tasks, entries, storeUnique, proc, events, nreq, res, lastStart>>

Next ==
  \/ \E p \in Procs, op \in {"start", "stop"}, t \in ReqTaskIds, u \in Users : Call(p, op, t, u)
  \/ \E p \in Procs : StartTaskLookup(p)
  \/ \E p \in Procs : StartOpenLookup(p)
  \/ \E p \in Procs : StartInsert(p)
  \/ \E p \in Procs : StopFind(p)
  \/ \E p \in Procs : StopUpdate(p)
  \/ Tick

Spec == Init /\ [][Next]_vars

\* ------------------------------- getProductivityMetrics, the handler

\* a request for the metrics: rows are the completed tasks' updated_at the
\* filtered query will return, none of them later than now
InitPM ==
  /\ \E now \in Times : \E rows \in SeqsUpTo(0..now, MaxTasks) :
       pm = [PMIdle EXCEPT !.pc = "fetch", !.rows = rows, !.now = now]
  /\ tasks = {}
  /\ entries = << >>
  /\ storeUnique = FALSE
  /\ proc = [p \in Procs |-> IdleProc]
  /\ clock = 0
  /\ events = << >>
  /\ nreq = 0
  /\ res = NoRes
  /\ lastStart = NoStart
  /\ io = TRUE
  /\ conns = [c \in ConnIds |-> NoConn]
  /\ tstat = TSIdle
  /\ trep = TRIdle
  /\ treq = NoTaskReq
  /\ ncall = 0

PMFail == [pm EXCEPT !.pc = "done", !.status = 500]

\* lines 164-179: the query; a store error is thrown to the catch block
PMFetch ==
  /\ pm.pc = "fetch"
  /\ \E fail \in BOOLEAN :
       pm' = IF fail THEN [PMFail EXCEPT !.fault = TRUE]
                     ELSE [pm EXCEPT !.pc = "group", !.completedTasks = pm.rows]
  /\ UNCHANGED <<io, conns, tstat, trep, treq, ncall, tasks, entries, storeUnique, proc, clock, events, nreq, res, lastStart>>

\* lines 181-200: tasks per day, the average, the sorted dates, the counters
PMGroup ==
  /\ pm.pc = "group"
  /\ LET tasksPerDay == TasksPerDay(pm.completedTasks)
         uniqueDays == Cardinality(DOMAIN tasksPerDay)
     IN pm' = [pm EXCEPT !.pc = "loop", !.tasksPerDay = tasksPerDay,
                 !.averageTasksPerDay = AverageTasksPerDay(Len(pm.completedTasks), uniqueDays),
                 !.dates = SortedDates(DOMAIN tasksPerDay),
                 !.i = 0, !.tempStreak = 0, !.longestStreak = 0]
  /\ UNCHANGED <<io, conns, tstat, trep, treq, ncall, tasks, entries, storeUnique, proc, clock, events, nreq, res, lastStart>>

\* lines 202-217: one iteration of the walk over dates; the code's i is pm.i
PMLoop ==
  /\ pm.pc = "loop"
  /\ pm.i < Len(pm.dates)
  /\ pm' = IF pm.i = 0
             THEN [pm EXCEPT !.tempStreak = 1, !.i = 1]
             ELSE LET diffDays == DiffDays(pm.dates[pm.i + 1], pm.dates[pm.i])
                      tempStreak == IF diffDays = 1 THEN pm.tempStreak + 1 ELSE 1
                  IN [pm EXCEPT !.tempStreak = tempStreak,
                                !.longestStreak = Max(pm.longestStreak, tempStreak),
                                !.i = pm.i + 1]
  /\ UNCHANGED <<io, conns, tstat, trep, treq, ncall, tasks, entries, storeUnique, proc, clock, events, nreq, res, lastStart>>

\* lines 219-240: lastDate = dates[dates.length - 1]; lastDate.getTime() throws
\* a TypeError when dates is empty, which the catch block answers with 500
PMFinish ==
  /\ pm.pc = "loop"
  /\ pm.i >= Len(pm.dates)
  /\ pm' = IF Len(pm.dates) = 0
             THEN PMFail
             ELSE LET diffDays == DiffDays(pm.now, pm.dates[Len(pm.dates)])
                  IN [pm EXCEPT !.pc = "done", !.status = 200,
                        !.body = [total_completed_tasks |-> Len(pm.completedTasks),
                                  tasks_per_day |-> pm.tasksPerDay,
                                  average_tasks_per_day |-> pm.averageTasksPerDay,
                                  current_streak |-> CurrentStreak(diffDays, pm.tempStreak),
                                  longest_streak |-> pm.longestStreak]]
  /\ UNCHANGED <<io, conns, tstat, trep, treq, ncall, tasks, entries, storeUnique, proc, clock, events, nreq, res, lastStart>>

NextPM == PMFetch \/ PMGroup \/ PMLoop \/ PMFinish

SpecPM == InitPM /\ [][NextPM]_vars

\* ------------------------------------------------- getTaskStatistics
Statuses   == {"pending", "in_progress", "completed"}
Priorities == {"low", "medium", "high"}

\* the window of a report: a bound is absent (Null) or a date
Dates == {Null, 2}

\* .eq('user_id', userId), .gte('created_at', start_date) when start_date is
\* given, .lte('created_at', end_date) when end_date is given
TaskQuery(tk, userId, start_date, end_date) ==
  {t \in tk : /\ t.user_id = userId
              /\ (start_date # Null => t.created_at >= start_date)
              /\ (end_date # Null => t.created_at <= end_date)}

CountStatusLoose(rows, s) ==
  Cardinality({t \in rows : s = "pending" \/ t.status = s})

\* tasks.filter(task => task.status === s).length
CountStatus(rows, s) == Cardinality({t \in rows : t.status = s})

\* tasks.filter(task => task.priority === p).length
CountPriority(rows, p) == Cardinality({t \in rows : t.priority = p})

\* tasks.filter(task => task.priority === p && task.status === 'completed').length
CountCompleted(rows, p) ==
  Cardinality({t \in rows : t.priority = p /\ t.status = "completed"})

RateUnguarded(completed, total) == [num |-> completed * 100, den |-> total]

\* total > 0 ? (completed / total) * 100 : 0, as the fraction num/den
Rate(completed, total) ==
  IF total > 0 THEN [num |-> completed * 100, den |-> total]
               ELSE [num |-> 0, den |-> 1]

\* the statistics object of lines 30-66
TaskStatistics(rows) ==
  [total_tasks       |-> Cardinality(rows),
   completed_tasks   |-> CountStatus(rows, "completed"),
   in_progress_tasks |-> CountStatus(rows, "in_progress"),
   pending_tasks     |-> CountStatus(rows, "pending"),
   completion_rate   |-> Rate(CountStatus(rows, "completed"), Cardinality(rows)),
   tasks_by_priority |-> [p \in Priorities |-> CountPriority(rows, p)],
   completion_rate_by_priority |->
     [p \in Priorities |-> Rate(CountCompleted(rows, p), CountPriority(rows, p))]]

\* socketService.ts lines 76-81: if (!this.io) return; otherwise the
\* statistics go to the sockets of the room user_${userId}
EmitStatisticsUpdated(userId, statistics) ==
  IF io THEN /\ events' = Append(events, [name |-> "statistics:updated",
                                          room |-> userId, payload |-> statistics])
             /\ conns' = Deliver(conns, userId, Len(events) + 1)
        ELSE UNCHANGED <<events, conns>>

\* the rows a task store holds: row i is absent, or a row of the caller with
\* any status and priority, or a row of the other user; created_at = id
TaskRowsOf(i) ==
  {[id |-> i, user_id |-> "u1", status |-> s, priority |-> p, created_at |-> i] :
     s \in Statuses, p \in Priorities}
  \cup {[id |-> i, user_id |-> "u2", status |-> "completed", priority |-> "high",
         created_at |-> i]}

RECURSIVE TaskStores(_)
TaskStores(n) ==
  IF n = 0 THEN {{}}
  ELSE LET prev == TaskStores(n - 1)
       IN prev \cup {s \cup {r} : s \in prev, r \in TaskRowsOf(n)}

InitTS ==
  /\ tasks \in TaskStores(MaxTS)
  /\ \E sd \in Dates, ed \in Dates :
       tstat = [TSIdle EXCEPT !.pc = "called", !.start_date = sd, !.end_date = ed]
  /\ entries = << >>
  /\ storeUnique = FALSE
  /\ proc = [p \in Procs |-> IdleProc]
  /\ clock = 0
  /\ events = << >>
  /\ nreq = 0
  /\ res = NoRes
  /\ lastStart = NoStart
  /\ pm = PMIdle
  /\ io = TRUE
  /\ conns = [c \in ConnIds |-> NoConn]
  /\ trep = TRIdle
  /\ treq = NoTaskReq
  /\ ncall = 0

\* const { data: tasks, error: tasksError } = await taskQuery fails:
\* the catch block answers 500 and nothing is published
TSFail ==
  /\ tstat.pc = "called"
  /\ tstat' = [tstat EXCEPT !.pc = "done", !.status = 500]
  /\ UNCHANGED <<io, conns, trep, treq, ncall, pm, tasks, entries, storeUnique,
                 proc, clock, events, nreq, res, lastStart>>

\* the query succeeds: the statistics are computed, published, and returned
TSGet ==
  /\ tstat.pc = "called"
  /\ LET rows == TaskQuery(tasks, tstat.user, tstat.start_date, tstat.end_date)
         statistics == TaskStatistics(rows)
     IN /\ EmitStatisticsUpdated(tstat.user, statistics)
        /\ tstat' = [tstat EXCEPT !.pc = "done", !.status = 200, !.body = statistics]
  /\ UNCHANGED <<io, trep, treq, ncall, pm, tasks, entries, storeUnique,
                 proc, clock, nreq, res, lastStart>>

NextTS == TSFail \/ TSGet

SpecTS == InitTS /\ [][NextTS]_vars

\* ------------------------------------ getTimeStatistics, getTimeReport
\* the tasks the time entries belong to (time_entries.task_id references tasks)
TRTasks ==
  {[id |-> "t1", user_id |-> "u1", priority |-> "high"],
   [id |-> "t2", user_id |-> "u1", priority |-> "low"],
   [id |-> "t3", user_id |-> "u2", priority |-> "medium"]}

\* select(`*, tasks (...)`): the task row joined to an entry
JoinedTask(tk, e) == CHOOSE t \in tk : t.id = e.task_id

TimeQueryWithOpen(es, userId, start_date, end_date) ==
  SelectSeq(es, LAMBDA e :
    /\ e.user_id = userId
    /\ (start_date # Null => e.start_time >= start_date)
    /\ (end_date # Null => e.end_time <= end_date))

\* .eq('user_id', userId).not('end_time', 'is', null), .gte('start_time',
\* start_date) when start_date is given, .lte('end_time', end_date) when
\* end_date is given
TimeQuery(es, userId, start_date, end_date) ==
  SelectSeq(es, LAMBDA e :
    /\ e.user_id = userId
    /\ e.end_time # Null
    /\ (start_date # Null => e.start_time >= start_date)
    /\ (end_date # Null => e.end_time <= end_date))

\* new Date(entry.end_time).getTime() - new Date(entry.start_time).getTime()
Duration(e) == e.end_time - e.start_time

\* timeEntries.reduce((total, entry) => total + (end - start), 0)
RECURSIVE TotalTime(_)
TotalTime(rows) ==
  IF rows = << >> THEN 0 ELSE Duration(Head(rows)) + TotalTime(Tail(rows))

AccSet(acc, key, d) ==
  [k \in DOMAIN acc \cup {key} |-> IF k = key THEN d ELSE acc[k]]

\* acc[key] = (acc[key] || 0) + duration
AccAdd(acc, key, d) ==
  IF key \in DOMAIN acc THEN [acc EXCEPT ![key] = @ + d]
                        ELSE [k \in DOMAIN acc \cup {key} |->
                                IF k = key THEN d ELSE acc[k]]

\* the reduce of lines 122-127: durations keyed by entry.tasks.priority
RECURSIVE TimeByPriority(_, _, _)
TimeByPriority(acc, rows, tk) ==
  IF rows = << >> THEN acc
  ELSE TimeByPriority(AccAdd(acc, JoinedTask(tk, Head(rows)).priority,
                             Duration(Head(rows))), Tail(rows), tk)

\* toLocaleDateString('en-US', { weekday: 'long' }): the weekday of the
\* calendar date, as the day number modulo 7
Weekday(t) == DateOf(t) % 7

\* the reduce of lines 134-139: durations keyed by the weekday of start_time
RECURSIVE TimeByDay(_, _)
TimeByDay(acc, rows) ==
  IF rows = << >> THEN acc
  ELSE TimeByDay(AccAdd(acc, Weekday(Head(rows).start_time), Duration(Head(rows))),
                 Tail(rows))

\* new Set(timeEntries.map(entry => entry.task_id))
UniqueTasks(rows) == {rows[i].task_id : i \in 1..Len(rows)}

AverageTimePerEntry(total, rows) ==
  IF Len(rows) > 0 THEN [num |-> total, den |-> Len(rows)]
                   ELSE [num |-> 0, den |-> 1]

\* uniqueTasks.size > 0 ? totalTimeMs / uniqueTasks.size : 0, as num/den
AverageTimePerTask(total, rows) ==
  IF Cardinality(UniqueTasks(rows)) > 0
    THEN [num |-> total, den |-> Cardinality(UniqueTasks(rows))]
    ELSE [num |-> 0, den |-> 1]

\* x / (1000 * 60 * 60) for x = num/den clock units, as a fraction of hours
\* (a day is DayLen units and 24 hours)
Hours(x) == [num |-> x.num * 24, den |-> x.den * DayLen]

\* the body of lines 142-149
TimeStatistics(rows, tk) ==
  LET totalTimeMs == TotalTime(rows)
      averageTimePerTask == AverageTimePerTask(totalTimeMs, rows)
  IN [total_time_ms   |-> totalTimeMs,
      total_time_hours |-> Hours([num |-> totalTimeMs, den |-> 1]),
      time_by_priority |-> TimeByPriority(<< >>, rows, tk),
      average_time_per_task_ms |-> averageTimePerTask,
      average_time_per_task_hours |-> Hours(averageTimePerTask),
      time_by_day |-> TimeByDay(<< >>, rows)]

OrderedAsc(rows) ==
  {[i \in 1..Len(rows) |-> rows[q[i]]] :
     q \in {p \in [1..Len(rows) -> 1..Len(rows)] :
              /\ \A i, j \in 1..Len(rows) : i # j => p[i] # p[j]
              /\ \A i, j \in 1..Len(rows) :
                   i < j => rows[p[i]].start_time <= rows[p[j]].start_time}}

\* .order('start_time', { ascending: false }): the orders the store may
\* return the rows in (rows of equal start_time come in any order)
OrderedDesc(rows) ==
  {[i \in 1..Len(rows) |-> rows[q[i]]] :
     q \in {p \in [1..Len(rows) -> 1..Len(rows)] :
              /\ \A i, j \in 1..Len(rows) : i # j => p[i] # p[j]
              /\ \A i, j \in 1..Len(rows) :
                   i < j => rows[p[i]].start_time >= rows[p[j]].start_time}}

\* the rows time_entries can hold: the caller's entries on either task, open
\* or closed, and entries of the other user
EntryRows(i) ==
  {[id |-> i, task_id |-> t, user_id |-> "u1", start_time |-> s, end_time |-> e] :
     t \in {"t1", "t2"}, s \in 0..MaxTime, e \in {Null} \cup (0..MaxTime)}
  \cup {[id |-> i, task_id |-> "t3", user_id |-> "u2", start_time |-> 0, end_time |-> e] :
          e \in {Null, 1}}

\* the stores of at most n rows: ids in insertion order, start_time (the
\* clock at insertion) never decreasing, end_time (the clock at the stop)
\* not before start_time
RECURSIVE EntryStores(_)
EntryStores(n) ==
  IF n = 0 THEN {<< >>}
  ELSE LET prev == EntryStores(n - 1)
       IN prev \cup
          {Append(es, r) : es \in {x \in prev : Len(x) = n - 1},
                           r \in {y \in EntryRows(n) :
                                    y.end_time = Null \/ y.end_time >= y.start_time}}

InitTR ==
  /\ tasks = TRTasks
  /\ entries \in {es \in EntryStores(MaxEnt) :
                    \A i \in 2..Len(es) : es[i].start_time >= es[i - 1].start_time}
  /\ \E sd \in Dates, ed \in Dates :
       trep = [TRIdle EXCEPT !.pc = "called", !.start_date = sd, !.end_date = ed]
  /\ storeUnique = FALSE
  /\ proc = [p \in Procs |-> IdleProc]
  /\ clock = 0
  /\ events = << >>
  /\ nreq = 0
  /\ res = NoRes
  /\ lastStart = NoStart
  /\ pm = PMIdle
  /\ io = TRUE
  /\ conns = [c \in ConnIds |-> NoConn]
  /\ tstat = TSIdle
  /\ treq = NoTaskReq
  /\ ncall = 0

\* the query of either handler fails: the catch block answers 500
TRFail ==
  /\ trep.pc = "called"
  /\ \E op \in {"statistics", "report"} :
       trep' = [trep EXCEPT !.pc = "done", !.op = op, !.status = 500]
  /\ UNCHANGED <<io, conns, tstat, treq, ncall, pm, tasks, entries, storeUnique,
                 proc, clock, events, nreq, res, lastStart>>

\* GET /statistics/time
GetTimeStatistics ==
  /\ trep.pc = "called"
  /\ LET rows == TimeQuery(entries, trep.user, trep.start_date, trep.end_date)
     IN trep' = [trep EXCEPT !.pc = "done", !.op = "statistics", !.status = 200,
                             !.body = TimeStatistics(rows, tasks)]
  /\ UNCHANGED <<io, conns, tstat, treq, ncall, pm, tasks, entries, storeUnique,
                 proc, clock, events, nreq, res, lastStart>>

GetTimeReportClosing ==
  /\ trep.pc = "called"
  /\ \E timeEntries \in OrderedDesc(TimeQueryWithOpen(entries, trep.user,
                                                      trep.start_date, trep.end_date)) :
       /\ trep' = [trep EXCEPT !.pc = "done", !.op = "report", !.status = 200,
                     !.body = [time_entries |-> timeEntries,
                               total_time_ms |-> TotalTime(timeEntries),
                               total_time_hours |->
                                 Hours([num |-> TotalTime(timeEntries), den |-> 1])]]
       /\ entries' = [i \in 1..Len(entries) |->
                        IF entries[i].end_time = Null
                          THEN [entries[i] EXCEPT !.end_time = entries[i].start_time]
                          ELSE entries[i]]
  /\ UNCHANGED <<io, conns, tstat, treq, ncall, pm, tasks, storeUnique,
                 proc, clock, events, nreq, res, lastStart>>

\* GET /time/report
GetTimeReport ==
  /\ trep.pc = "called"
  /\ \E timeEntries \in OrderedDesc(TimeQuery(entries, trep.user,
                                              trep.start_date, trep.end_date)) :
       trep' = [trep EXCEPT !.pc = "done", !.op = "report", !.status = 200,
                  !.body = [time_entries |-> timeEntries,
                            total_time_ms |-> TotalTime(timeEntries),
                            total_time_hours |->
                              Hours([num |-> TotalTime(timeEntries), den |-> 1])]]
  /\ UNCHANGED <<io, conns, tstat, treq, ncall, pm, tasks, entries, storeUnique,
                 proc, clock, events, nreq, res, lastStart>>

NextTR == TRFail \/ GetTimeStatistics \/ GetTimeReport

SpecTR == InitTR /\ [][NextTR]_vars

\* ------------------------------------------------------ getTimeEntries
InitTE ==
  /\ tasks = TRTasks
  /\ entries \in {es \in EntryStores(MaxEnt) :
                    \A i \in 2..Len(es) : es[i].start_time >= es[i - 1].start_time}
  /\ \E t \in {"t1", "t2", "t3"}, u \in Users :
       trep = [TRIdle EXCEPT !.pc = "lookup", !.op = "entries", !.task = t, !.user = u]
  /\ storeUnique = FALSE
  /\ proc = [p \in Procs |-> IdleProc]
  /\ clock = 0
  /\ events = << >>
  /\ nreq = 0
  /\ res = NoRes
  /\ lastStart = NoStart
  /\ pm = PMIdle
  /\ io = TRUE
  /\ conns = [c \in ConnIds |-> NoConn]
  /\ tstat = TSIdle
  /\ treq = NoTaskReq
  /\ ncall = 0

\* the client sends the same request once more
TEAgain ==
  /\ trep.pc = "done" /\ trep.op = "entries"
  /\ trep.prev = NoPrev
  /\ trep' = [trep EXCEPT !.pc = "lookup", !.status = 0, !.body = << >>,
                          !.prev = [status |-> trep.status, body |-> trep.body]]
  /\ UNCHANGED <<io, conns, tstat, treq, ncall, pm, tasks, entries, storeUnique,
                 proc, clock, events, nreq, res, lastStart>>

\* getTimeEntries, lines 119-130: task lookup
TELookup ==
  /\ trep.pc = "lookup"
  /\ \E fail \in BOOLEAN :
       LET rows == TaskRows(tasks, trep.task, trep.user)
           task == ~fail /\ SingleOk(rows)
       IN trep' = IF task THEN [trep EXCEPT !.pc = "query"]
                          ELSE [trep EXCEPT !.pc = "done", !.status = 404]
  /\ UNCHANGED <<io, conns, tstat, treq, ncall, pm, tasks, entries, storeUnique,
                 proc, clock, events, nreq, res, lastStart>>

\* .eq('task_id', task_id).eq('user_id', userId)
EntriesOf(es, t, u) == SelectSeq(es, LAMBDA e : e.task_id = t /\ e.user_id = u)

\* getTimeEntries, lines 132-151: the entries newest first, or 500
TEQuery ==
  /\ trep.pc = "query"
  /\ \E fail \in BOOLEAN :
       IF fail
         THEN trep' = [trep EXCEPT !.pc = "done", !.status = 500]
         ELSE \E timeEntries \in OrderedDesc(EntriesOf(entries, trep.task, trep.user)) :
                trep' = [trep EXCEPT !.pc = "done", !.status = 200, !.body = timeEntries]
  /\ UNCHANGED <<io, conns, tstat, treq, ncall, pm, tasks, entries, storeUnique,
                 proc, clock, events, nreq, res, lastStart>>

NextTE ==
  \/ TEAgain
  \/ TELookup
  \/ TEQuery

SpecTE == InitTE /\ [][NextTE]_vars

\* ------------------------------------------------ the report handlers
\* one request to one of the five report handlers, on the store it runs against
InitReports == InitTS \/ InitTR \/ InitPM \/ InitTE

NextReports == NextTS \/ NextTR \/ NextPM \/ NextTE

SpecReports == InitReports /\ [][NextReports]_vars

\* ------------------------------------- task handlers and socket server
\* the state the time-tracking and report handlers own
others == <<pm, entries, storeUnique, proc, clock, nreq, res, lastStart, trep>>

\* if (!this.io) return; this.io.to(room).emit(name, payload), or
\* this.io.emit(name, payload) when room is AllRoom
Publish(name, room, payload) ==
  IF io THEN /\ events' = Append(events, [name |-> name, room |-> room,
                                          payload |-> payload])
             /\ conns' = Deliver(conns, room, Len(events) + 1)
        ELSE UNCHANGED <<events, conns>>

EmitTaskCreated(task) == Publish("task:created", task.user_id, task)

EmitTaskUpdated(task) == Publish("task:updated", task.user_id, task)

EmitTaskDeleted(taskId) == Publish("task:deleted", AllRoom, [taskId |-> taskId])

\* the state after construction: SocketService.io is null, no socket, no row
InitSock ==
  /\ io = FALSE
  /\ conns = [c \in ConnIds |-> NoConn]
  /\ tasks = {}
  /\ events = << >>
  /\ treq = NoTaskReq
  /\ tstat = TSIdle
  /\ ncall = 0
  /\ entries = << >>
  /\ storeUnique = FALSE
  /\ proc = [p \in Procs |-> IdleProc]
  /\ clock = 0
  /\ nreq = 0
  /\ res = NoRes
  /\ lastStart = NoStart
  /\ pm = PMIdle
  /\ trep = TRIdle

\* SocketService.initialize(httpServer)
Initialize ==
  /\ ~io
  /\ io' = TRUE
  /\ UNCHANGED <<conns, tasks, events, treq, tstat, ncall, others>>

ConnectReplay(c) ==
  /\ io
  /\ ~conns[c].live
  /\ conns' = [conns EXCEPT ![c] =
       [NoConn EXCEPT !.live = TRUE,
                      !.inbox = [i \in 1..Len(events) |-> i]]]
  /\ UNCHANGED <<io, tasks, events, treq, tstat, ncall, others>>

\* this.io.on('connection', ...): a client opens a socket (again); the new
\* socket is in no user room, what the client received so far stays received
Connect(c) ==
  /\ io
  /\ ~conns[c].live
  /\ conns' = [conns EXCEPT ![c] = [NoConn EXCEPT !.live = TRUE, !.inbox = conns[c].inbox]]
  /\ UNCHANGED <<io, tasks, events, treq, tstat, ncall, others>>

JoinCount(c) == SumOver(c.joined)

\* socket.on('join', userId => socket.join(`user_${userId}`)): the user id is
\* whatever the client sends
Join(c, u) ==
  /\ conns[c].live
  /\ JoinCount(conns[c]) < MaxJoin
  /\ conns' = [conns EXCEPT ![c].joined[u] = @ + 1]
  /\ UNCHANGED <<io, tasks, events, treq, tstat, ncall, others>>

\* socket.on('disconnect', ...): the socket leaves its rooms
Disconnect(c) ==
  /\ conns[c].live
  /\ conns' = [conns EXCEPT ![c] = [NoConn EXCEPT !.inbox = conns[c].inbox]]
  /\ UNCHANGED <<io, tasks, events, treq, tstat, ncall, others>>

\* a client sends POST /tasks, PUT /tasks/:id, PATCH /tasks/:id/status or
\* DELETE /tasks/:id
TaskCall(op, u, id, priority, newStatus) ==
  /\ treq.pc # "called"
  /\ ncall < MaxCalls
  /\ treq' = [NoTaskReq EXCEPT !.pc = "called", !.op = op, !.user = u, !.id = id,
                               !.priority = priority, !.newStatus = newStatus]
  /\ ncall' = ncall + 1
  /\ UNCHANGED <<io, conns, tasks, events, tstat, others>>

TaskDone(code) == [treq EXCEPT !.pc = "done", !.status = code]

\* createTask: insert, emit, 201
CreateTask ==
  /\ treq.pc = "called" /\ treq.op = "create"
  /\ \E fail \in BOOLEAN :
       IF fail
         THEN /\ treq' = TaskDone(500)
              /\ UNCHANGED <<tasks, events, conns>>
         ELSE LET task == [id |-> ncall, user_id |-> treq.user, status |-> "pending",
                           priority |-> treq.priority, created_at |-> ncall]
              IN /\ tasks' = tasks \cup {task}
                 /\ EmitTaskCreated(task)
                 /\ treq' = TaskDone(201)
  /\ UNCHANGED <<io, tstat, ncall, others>>

\* the rows .eq('id', id).eq('user_id', userId) selects
OwnTaskRows(tk, id, userId) == {t \in tk : t.id = id /\ t.user_id = userId}

\* updateTask: update ... .select().single(), emit, 200
UpdateTask ==
  /\ treq.pc = "called" /\ treq.op = "update"
  /\ \E fail \in BOOLEAN :
       LET rows == OwnTaskRows(tasks, treq.id, treq.user)
           error == fail \/ ~SingleOk(rows)
       IN IF error
            THEN /\ treq' = TaskDone(500)
                 /\ tasks' = IF fail THEN tasks
                             ELSE (tasks \ rows) \cup {[t EXCEPT !.priority = treq.priority] : t \in rows}
                 /\ UNCHANGED <<events, conns>>
            ELSE IF rows = {}
              THEN /\ treq' = TaskDone(404)
                   /\ UNCHANGED <<tasks, events, conns>>
              ELSE LET task == [(CHOOSE t \in rows : TRUE) EXCEPT !.priority = treq.priority]
                   IN /\ tasks' = (tasks \ rows) \cup {task}
                      /\ EmitTaskUpdated(task)
                      /\ treq' = TaskDone(200)
  /\ UNCHANGED <<io, tstat, ncall, others>>

\* updateTaskStatus: validate, update ... .select().single(), emit, 200
UpdateTaskStatus ==
  /\ treq.pc = "called" /\ treq.op = "status"
  /\ \E fail \in BOOLEAN :
       LET rows == OwnTaskRows(tasks, treq.id, treq.user)
           error == fail \/ ~SingleOk(rows)
       IN IF treq.newStatus \notin Statuses
            THEN /\ treq' = TaskDone(400)
                 /\ UNCHANGED <<tasks, events, conns>>
            ELSE IF error
              THEN /\ treq' = TaskDone(500)
                   /\ tasks' = IF fail THEN tasks
                               ELSE (tasks \ rows) \cup {[t EXCEPT !.status = treq.newStatus] : t \in rows}
                   /\ UNCHANGED <<events, conns>>
              ELSE IF rows = {}
                THEN /\ treq' = TaskDone(404)
                     /\ UNCHANGED <<tasks, events, conns>>
                ELSE LET task == [(CHOOSE t \in rows : TRUE) EXCEPT !.status = treq.newStatus]
                     IN /\ tasks' = (tasks \ rows) \cup {task}
                        /\ EmitTaskUpdated(task)
                        /\ treq' = TaskDone(200)
  /\ UNCHANGED <<io, tstat, ncall, others>>

\* deleteTask: delete the rows of this id and user, emit, 200
DeleteTask ==
  /\ treq.pc = "called" /\ treq.op = "delete"
  /\ \E fail \in BOOLEAN :
       IF fail
         THEN /\ treq' = TaskDone(500)
              /\ UNCHANGED <<tasks, events, conns>>
         ELSE LET rows == OwnTaskRows(tasks, treq.id, treq.user)
              IN /\ tasks' = tasks \ rows
                 /\ EmitTaskDeleted(treq.id)
                 /\ treq' = [TaskDone(200) EXCEPT !.removed = Cardinality(rows)]
  /\ UNCHANGED <<io, tstat, ncall, others>>

\* a client sends GET /statistics/tasks
TSCall(u, sd, ed) ==
  /\ tstat.pc # "called"
  /\ ncall < MaxCalls
  /\ tstat' = [TSIdle EXCEPT !.pc = "called", !.user = u, !.start_date = sd,
                             !.end_date = ed]
  /\ ncall' = ncall + 1
  /\ UNCHANGED <<io, conns, tasks, events, treq, others>>

\* what the server does on its own once a request has arrived
Handle == CreateTask \/ UpdateTask \/ UpdateTaskStatus \/ DeleteTask \/ TSFail \/ TSGet

KnownIds == {t.id : t \in tasks} \cup {0}

\* a socket that has joined the room of u, or no room when u is not a user
Joined(u) == [NoConn EXCEPT !.live = TRUE,
                            !.joined = [v \in Users |-> IF v = u THEN 1 ELSE 0]]

\* the server is listening (app.ts initialises the socket server first) and
\* clients are connected; the store is empty
InitTask ==
  /\ io = TRUE
  /\ conns \in [ConnIds -> {Joined(u) : u \in Users \cup {"none"}}]
  /\ tasks = {}
  /\ events = << >>
  /\ treq = NoTaskReq
  /\ tstat = TSIdle
  /\ ncall = 0
  /\ entries = << >>
  /\ storeUnique = FALSE
  /\ proc = [p \in Procs |-> IdleProc]
  /\ clock = 0
  /\ nreq = 0
  /\ res = NoRes
  /\ lastStart = NoStart
  /\ pm = PMIdle
  /\ trep = TRIdle

NextTask ==
  \/ \E u \in Users : TaskCall("create", u, 0, "high", "pending")
  \/ \E u \in Users, id \in KnownIds : TaskCall("update", u, id, "medium", "pending")
  \/ \E u \in Users, id \in KnownIds, s \in {"completed", "archived"} :
       TaskCall("status", u, id, "low", s)
  \/ \E u \in Users, id \in KnownIds : TaskCall("delete", u, id, "low", "pending")
  \/ \E u \in Users : TSCall(u, Null, Null)
  \/ CreateTask
  \/ UpdateTask
  \/ UpdateTaskStatus
  \/ DeleteTask
  \/ TSFail
  \/ TSGet

SpecTask == InitTask /\ [][NextTask]_vars

\* the server answers every request it has received; clients are free to
\* send none
SpecTaskLive == SpecTask /\ WF_vars(Handle)

\* ------------------------------------------- SocketService, its methods
\* the task handed to emitTaskCreated / emitTaskUpdated by the handlers
SomeTask(u) == [id |-> 1, user_id |-> u, status |-> "pending", priority |-> "high",
                created_at |-> 1]

\* createTask calls emitTaskCreated(task), updateTask and updateTaskStatus
\* call emitTaskUpdated(task)
TaskEmitted(name, u) ==
  /\ ncall < MaxPub
  /\ IF name = "task:created" THEN EmitTaskCreated(SomeTask(u))
                              ELSE EmitTaskUpdated(SomeTask(u))
  /\ ncall' = ncall + 1
  /\ UNCHANGED <<io, tasks, treq, tstat, others>>

\* deleteTask calls emitTaskDeleted(id)
TaskDeletedEmitted ==
  /\ ncall < MaxPub
  /\ EmitTaskDeleted(1)
  /\ ncall' = ncall + 1
  /\ UNCHANGED <<io, tasks, treq, tstat, others>>

\* the time-tracking handlers call emitTimeTrackingStarted(timeEntry) after
\* the insert and emitTimeTrackingStopped(updatedEntry) after the update
TimeTrackingEmitted(name, u) ==
  /\ ncall < MaxPub
  /\ EmitTimeTracking(name, [id |-> 1, task_id |-> "t1", user_id |-> u, start_time |-> 0,
                             end_time |-> IF name = "time:started" THEN Null ELSE 1])
  /\ ncall' = ncall + 1
  /\ UNCHANGED <<io, tasks, treq, tstat, others>>

\* getTaskStatistics calls emitStatisticsUpdated(userId, statistics)
StatisticsEmitted(u) ==
  /\ ncall < MaxPub
  /\ EmitStatisticsUpdated(u, TaskStatistics({}))
  /\ ncall' = ncall + 1
  /\ UNCHANGED <<io, tasks, treq, tstat, others>>

NextSock ==
  \/ Initialize
  \/ \E c \in ConnIds : Connect(c)
  \/ \E c \in ConnIds, u \in Users : Join(c, u)
  \/ \E c \in ConnIds : Disconnect(c)
  \/ \E u \in Users, name \in {"task:created", "task:updated"} : TaskEmitted(name, u)
  \/ TaskDeletedEmitted
  \/ \E u \in Users, name \in {"time:started", "time:stopped"} : TimeTrackingEmitted(name, u)
  \/ \E u \in Users : StatisticsEmitted(u)

SpecSock == InitSock /\ [][NextSock]_vars

\* ------------------------------------------------------------ properties

\* C1: for every task, at most one time entry has end_time = null, whatever
\* the interleaving of concurrent start requests
C1_AtMostOneOpenEntry ==
  \A t \in TaskIds : Cardinality(OpenOfTask(entries, t)) <= 1

\* C2: a start whose open-entry check meets one or more open entries of the
\* task answers 400 and inserts nothing; one that meets none is not refused
\* (requests whose lookup hit a store error are left aside)
C2_OpenEntryMeansConflict ==
  (res.op = "start" /\ res.status \in {200, 400, 500} /\ ~res.fault)
    => (res.rows >= 1 <=> res.status = 400)

\* C3: stop answers 404 only when the task/user pair has no open entry
\* (requests whose lookup hit a store error are left aside)
C3_StopNotFoundOnlyWhenIdle ==
  (res.op = "stop" /\ res.status = 404 /\ ~res.fault) => res.rows = 0

\* C4: from a task with no open entry and no request in flight, a successful
\* start followed by a successful stop of the same task, with no request
\* issued between the two, adds exactly one entry; it is closed, its
\* start_time is the clock start read, its end_time the clock stop read,
\* end_time >= start_time, and the task has no open entry again
C4_RoundTrip ==
  (/\ res.op = "stop" /\ res.status = 200
   /\ lastStart.entry = res.entry /\ lastStart.fresh
   /\ res.seq = lastStart.seq + 1)
    => LET e == entries[res.entry]
       IN /\ Cardinality(TaskEntries(entries, e.task_id)) = lastStart.cnt0 + 1
          /\ e.end_time # Null
          /\ e.end_time >= e.start_time
          /\ e.start_time = lastStart.time
          /\ e.end_time = res.time
          /\ OpenOfTask(entries, e.task_id) = {}

C4_Witness ==
  /\ res.op = "stop" /\ res.status = 200
  /\ lastStart.entry = res.entry /\ lastStart.fresh
  /\ res.seq = lastStart.seq + 1
  /\ entries[res.entry].end_time > entries[res.entry].start_time

\* C5: a start on a task id that no row of tasks pairs with the caller
\* answers 404, and leaves time_entries and the emitted events as they were
C5_StartNotOwned ==
  [][\A p \in Procs :
       (/\ proc[p].pc = "task" /\ proc'[p] # proc[p]
        /\ ~\E t \in tasks : t.id = proc[p].task /\ t.user_id = proc[p].user)
         => /\ res'.op = "start" /\ res'.seq = proc[p].seq /\ res'.status = 404
            /\ proc'[p].pc = "idle"
            /\ entries' = entries /\ events' = events]_vars

C5_Witness ==
  /\ res.op = "start" /\ res.status = 404 /\ ~res.owned /\ ~res.fault
  /\ entries # << >>

\* C6: a start whose insert the store rejects because the task already has
\* an open entry answers 400 (Conflict), not 500
C6_AlreadyOpenIsConflict ==
  (res.op = "start" /\ res.ierr = "AlreadyOpen") => res.status = 400

\* the calendar days on which the fetched tasks were last updated
Days(rows) == {rows[k] \div DayLen : k \in 1..Len(rows)}

\* length of the run of consecutive days of S that ends at day d of S
RunEndingAt(S, d) ==
  CHOOSE k \in 1..Cardinality(S) :
    (\A j \in 0..(k - 1) : d - j \in S) /\ (d - k \notin S)

LongestRun(S) ==
  IF S = {} THEN 0
  ELSE CHOOSE m \in 1..Cardinality(S) :
         (\E d \in S : RunEndingAt(S, d) = m) /\ (\A d \in S : RunEndingAt(S, d) <= m)

LastDay(S) == CHOOSE d \in S : \A e \in S : e <= d

\* C7: a window with no completed tasks is answered 200 with
\* total_completed_tasks = 0, tasks_per_day = {}, average_tasks_per_day = 0,
\* current_streak = 0 and longest_streak = 0 (store errors left aside)
C7_EmptyWindowAllZero ==
  (pm.pc = "done" /\ ~pm.fault /\ pm.rows = << >>)
    => (pm.status = 200 /\ pm.body = NoBody)

\* C8: for a non-empty set of completion dates, longest_streak is the length
\* of the longest run of consecutive calendar days among them
C8_LongestStreak ==
  (pm.pc = "done" /\ pm.status = 200)
    => pm.body.longest_streak = LongestRun(Days(pm.rows))

\* C9: current_streak is the length of the run of consecutive days ending at
\* the most recent completion date when that date is today or yesterday, and
\* 0 when it is two or more days back; D-4, D-3, D with today = D give
\* longest_streak = 2 and current_streak = 1
C9_CurrentStreak ==
  (pm.pc = "done" /\ pm.status = 200)
    => LET S == Days(pm.rows)
           last == LastDay(S)
           today == pm.now \div DayLen
       IN /\ pm.body.current_streak =
               IF today - last <= 1 THEN RunEndingAt(S, last) ELSE 0
          /\ (today >= 4 /\ S = {today - 4, today - 3, today})
               => (pm.body.longest_streak = 2 /\ pm.body.current_streak = 1)

C9_Witness ==
  /\ pm.pc = "done" /\ pm.status = 200
  /\ Days(pm.rows) = {0, 1, 4} /\ pm.now \div DayLen = 4
  /\ pm.body.current_streak = 1

C9_WitnessBroken ==
  /\ pm.pc = "done" /\ pm.status = 200
  /\ Days(pm.rows) = {0, 1} /\ pm.now \div DayLen = 3
  /\ pm.body.current_streak = 0

\* C10: tasks_per_day maps each calendar date of a fetched task to the number
\* of fetched tasks of that date, its values sum to total_completed_tasks,
\* and average_tasks_per_day times its number of keys is total_completed_tasks
\* (the average is 0 without keys)
C10_TasksPerDay ==
  (pm.pc \in {"loop", "done"} /\ ~pm.fault)
    => LET tpd == pm.tasksPerDay
           n == Len(pm.rows)
           avg == pm.averageTasksPerDay
       IN /\ DOMAIN tpd = Days(pm.rows)
          /\ \A d \in DOMAIN tpd :
               tpd[d] = Cardinality({k \in 1..n : pm.rows[k] \div DayLen = d})
          /\ SumOver(tpd) = n
          /\ avg.num * Cardinality(DOMAIN tpd) = n * avg.den
          /\ (DOMAIN tpd = {} => avg.num = 0)
          /\ pm.status = 200 =>
               /\ pm.body.tasks_per_day = tpd
               /\ pm.body.total_completed_tasks = n
               /\ pm.body.average_tasks_per_day = avg

C10_Witness ==
  /\ pm.pc = "done" /\ pm.status = 200
  /\ Cardinality(DOMAIN pm.body.tasks_per_day) = 2
  /\ \E d \in DOMAIN pm.body.tasks_per_day : pm.body.tasks_per_day[d] = 2

\* the rows the finished statistics request selected
TSRows == TaskQuery(tasks, tstat.user, tstat.start_date, tstat.end_date)

TSAnswered == tstat.pc = "done" /\ tstat.status = 200

\* r is the fraction completed/total, between 0 and 1
IsFractionOf(r, completed, total) ==
  /\ r.den > 0
  /\ 0 <= r.num /\ r.num <= r.den
  /\ (total > 0 => r.num * total = completed * r.den)

\* C11: every rate of getTaskStatistics (completion_rate and the rate of each
\* priority) is a fraction between 0 and 1, equal to completed/total of its
\* set of tasks, never above 1
C11_RatesAreFractions ==
  TSAnswered =>
    /\ IsFractionOf(tstat.body.completion_rate,
                    CountStatus(TSRows, "completed"), Cardinality(TSRows))
    /\ \A p \in Priorities :
         IsFractionOf(tstat.body.completion_rate_by_priority[p],
                      CountCompleted(TSRows, p), CountPriority(TSRows, p))

\* C12: a priority with no task in the window has rate exactly 0, the overall
\* rate is exactly 0 when the window holds no task of the caller, and no rate
\* is computed with a zero divisor
C12_EmptyBucketRateZero ==
  TSAnswered =>
    /\ tstat.body.completion_rate.den # 0
    /\ (Cardinality(TSRows) = 0 => tstat.body.completion_rate.num = 0)
    /\ \A p \in Priorities :
         /\ tstat.body.completion_rate_by_priority[p].den # 0
         /\ (CountPriority(TSRows, p) = 0
               => tstat.body.completion_rate_by_priority[p].num = 0)

\* a store with rows, none of them in the caller's window, and an answer
C12_Witness ==
  /\ TSAnswered
  /\ tasks # {}
  /\ TSRows = {}
  /\ \A p \in Priorities : tstat.body.completion_rate_by_priority[p].num = 0

\* C13: the three status counts add up to total_tasks and the three priority
\* counts add up to total_tasks
C13_BucketsPartition ==
  TSAnswered =>
    /\ tstat.body.completed_tasks + tstat.body.in_progress_tasks
         + tstat.body.pending_tasks = tstat.body.total_tasks
    /\ tstat.body.tasks_by_priority["high"] + tstat.body.tasks_by_priority["medium"]
         + tstat.body.tasks_by_priority["low"] = tstat.body.total_tasks
    /\ tstat.body.total_tasks = Cardinality(TSRows)

\* an answer over rows of two statuses and two priorities
C13_Witness ==
  /\ TSAnswered
  /\ tstat.body.total_tasks >= 2
  /\ tstat.body.completed_tasks >= 1
  /\ tstat.body.pending_tasks >= 1
  /\ tstat.body.tasks_by_priority["high"] >= 1
  /\ tstat.body.tasks_by_priority["low"] >= 1

\* the caller's closed entries inside the window of the finished report
TRClosed ==
  {i \in 1..Len(entries) :
     /\ entries[i].user_id = trep.user
     /\ entries[i].end_time # Null
     /\ (trep.start_date # Null => entries[i].start_time >= trep.start_date)
     /\ (trep.end_date # Null => entries[i].end_time <= trep.end_date)}

TRClosedTotal ==
  SumOver([i \in TRClosed |-> entries[i].end_time - entries[i].start_time])

TRAnswered == trep.pc = "done" /\ trep.status = 200

\* C14: total_time_ms of getTimeStatistics and of getTimeReport is the sum of
\* end_time - start_time over the caller's closed entries in the window; open
\* entries and entries of other users add nothing to any total
C14_TotalOverOwnClosed ==
  TRAnswered =>
    /\ trep.body.total_time_ms = TRClosedTotal
    /\ trep.op = "statistics" =>
         /\ SumOver(trep.body.time_by_priority) = TRClosedTotal
         /\ SumOver(trep.body.time_by_day) = TRClosedTotal
    /\ trep.op = "report" =>
         {trep.body.time_entries[i].id : i \in 1..Len(trep.body.time_entries)}
           = {entries[i].id : i \in TRClosed}

\* a running timer of the caller next to a closed entry, and an answer
C14_Witness ==
  /\ TRAnswered
  /\ trep.body.total_time_ms > 0
  /\ \E i \in 1..Len(entries) :
       entries[i].user_id = trep.user /\ entries[i].end_time = Null

\* another user's closed entry next to a closed entry of the caller
C14_WitnessOtherUser ==
  /\ TRAnswered
  /\ trep.op = "report"
  /\ trep.body.total_time_ms > 0
  /\ \E i \in 1..Len(entries) :
       entries[i].user_id # trep.user /\ entries[i].end_time # Null

\* C15: average_time_per_task_ms is total_time_ms over the number of distinct
\* task ids among the closed entries in the window, 0 when there are none; two
\* closed entries of lengths 1 and 3 on one task give total 4 and average 4
C15_AveragePerDistinctTask ==
  (TRAnswered /\ trep.op = "statistics") =>
    LET distinct == Cardinality({entries[i].task_id : i \in TRClosed})
        avg == trep.body.average_time_per_task_ms
    IN /\ avg.den > 0
       /\ distinct = 0 => avg.num = 0
       /\ distinct > 0 => avg.num * distinct = TRClosedTotal * avg.den
       /\ (/\ Cardinality(TRClosed) = 2 /\ distinct = 1
           /\ {entries[i].end_time - entries[i].start_time : i \in TRClosed} = {1, 3})
          => (trep.body.total_time_ms = 4 /\ avg.num = 4 * avg.den)

\* the two entries of lengths 1 and 3 on the same task
C15_Witness ==
  /\ TRAnswered /\ trep.op = "statistics"
  /\ Cardinality(TRClosed) = 2
  /\ Cardinality({entries[i].task_id : i \in TRClosed}) = 1
  /\ {entries[i].end_time - entries[i].start_time : i \in TRClosed} = {1, 3}

\* a start or stop request is answered in this step
Answered == \E p \in Procs : InFlight(p) /\ proc'[p] = IdleProc

\* C16: a start or stop call answered 200 publishes exactly one event in the
\* step that wrote the store: time:started or time:stopped, carrying the
\* entry as stored, scoped to the entry's user; a call that fails, and every
\* other step, publishes nothing
C16_OneEventPerSuccess ==
  [][IF Answered /\ res'.status = 200
       THEN /\ Len(events') = Len(events) + 1
            /\ SubSeq(events', 1, Len(events)) = events
            /\ res'.entry \in 1..Len(entries')
            /\ events'[Len(events')] =
                 [name    |-> IF res'.op = "start" THEN "time:started" ELSE "time:stopped",
                  room    |-> entries'[res'.entry].user_id,
                  payload |-> entries'[res'.entry]]
            /\ res'.op = "start" => entries'[res'.entry].end_time = Null
            /\ res'.op = "stop" => entries'[res'.entry].end_time # Null
       ELSE events' = events]_vars

\* a start and the stop of the same entry have both been published, and a
\* later call has failed without publishing
C16_Witness ==
  /\ Len(events) = 2
  /\ events[1].name = "time:started"
  /\ events[2].name = "time:stopped"
  /\ events[1].payload.id = events[2].payload.id
  /\ events[2].room = "u1"
  /\ res.status \in {400, 404, 500}
  /\ res.seq = 3

\* C17: every event goes only to connections that joined the room of the
\* user who owns the mutated resource (the user of the request that
\* published it), never to a connection of another room or of no room
C17_EventsUserSpecific ==
  [][\A c \in ConnIds :
       conns'[c].inbox # conns[c].inbox =>
         LET ev == events'[Len(events')]
             owner == IF ev.name = "statistics:updated" THEN tstat.user ELSE treq.user
         IN conns[c].joined[owner] > 0]_vars

\* C18: a publish scoped to user u reaches, exactly once, each connection that
\* is live and has joined u (however many times it joined), and changes no
\* other connection; the emit call returns in the same step
C18_ExactlyOncePerMember ==
  [][\A u \in Users :
       (Len(events') = Len(events) + 1 /\ events'[Len(events')].room = u) =>
         /\ ncall' = ncall + 1
         /\ \A c \in ConnIds :
              conns'[c] = IF conns[c].live /\ conns[c].joined[u] > 0
                            THEN [conns[c] EXCEPT !.inbox = Append(@, Len(events'))]
                            ELSE conns[c]]_vars

\* a connection that joined u twice holds the event once, and a live
\* connection outside the room holds nothing
C18_Witness ==
  \E c, d \in ConnIds, u \in Users :
    /\ events # << >> /\ events[1].room = u
    /\ conns[c].live /\ conns[c].joined[u] = 2 /\ conns[c].inbox = <<1>>
    /\ conns[d].live /\ conns[d].joined[u] = 0 /\ conns[d].inbox = << >>

\* C19: an emit call made before initialize, or while no connection is live,
\* returns having delivered nothing, and nothing is kept for later: a
\* connection receives an event only in the step that publishes it, and only
\* if it is live then
C19_NoBuffering ==
  [][/\ \A c \in ConnIds :
          conns'[c].inbox # conns[c].inbox =>
            /\ conns[c].live
            /\ Len(events') = Len(events) + 1
            /\ conns'[c].inbox = Append(conns[c].inbox, Len(events'))
     /\ (ncall' = ncall + 1 /\ ~io) => (events' = events /\ conns' = conns)
     /\ (ncall' = ncall + 1 /\ \A c \in ConnIds : ~conns[c].live) => conns' = conns]_vars

\* an event for u was published, and a connection that is now live in the
\* room of u has received nothing
C19_Witness ==
  \E c \in ConnIds, u \in Users :
    /\ events # << >> /\ events[1].room = u
    /\ conns[c].live /\ conns[c].joined[u] > 0 /\ conns[c].inbox = << >>

\* a task request of user u has been answered with success
Mutated(u) ==
  /\ treq.pc = "done" /\ treq.user = u
  /\ treq.op \in {"create", "update", "status", "delete"}
  /\ treq.status \in {200, 201}

\* C20: once a mutation of user u has completed, a statistics:updated event
\* scoped to u is eventually published
C20_StatisticsEventuallyPublished ==
  \A u \in Users :
    Mutated(u) ~> (\E i \in 1..Len(events) :
                     events[i].name = "statistics:updated" /\ events[i].room = u)

\* C21: a store error in a lookup of start or stop is answered 500, never
\* 404 or 200, and no request goes on to its insert or update after a lookup
\* that ended in a store error
C21_StoreFailureReported ==
  /\ res.fault => res.status = 500
  /\ \A p \in Procs : proc[p].fault => proc[p].pc \notin {"insert", "update"}

\* the finished getTimeEntries request was for a task of the caller
TEOwned == \E t \in tasks : t.id = trep.task /\ t.user_id = trep.user

TEDone == trep.pc = "done" /\ trep.op = "entries"

\* C22: getTimeEntries on a task of the caller returns exactly the entries of
\* that task and user, newest start_time first, and the same sequence as the
\* same request returned before; on a task of somebody else it answers 404
\* with no entries
C22_EntriesOrderedAndStable ==
  TEDone =>
    /\ (TEOwned /\ trep.status = 200) =>
         /\ {trep.body[i] : i \in 1..Len(trep.body)}
              = {entries[i] : i \in {j \in 1..Len(entries) :
                   entries[j].task_id = trep.task /\ entries[j].user_id = trep.user}}
         /\ \A i, j \in 1..Len(trep.body) :
              i < j => /\ trep.body[i].start_time >= trep.body[j].start_time
                       /\ trep.body[i] # trep.body[j]
         /\ trep.prev.status = 200 => trep.body = trep.prev.body
    /\ ~TEOwned => (trep.status = 404 /\ trep.body = << >>)

\* C23: no step removes an entry or changes task_id, user_id or start_time of
\* one; an entry whose end_time is set is never changed again; and no entry
\* has two time:stopped events
C23_ClosedEntryNeverChanges ==
  [][/\ Len(entries') >= Len(entries)
     /\ \A i \in 1..Len(entries) :
          /\ entries'[i].task_id = entries[i].task_id
          /\ entries'[i].user_id = entries[i].user_id
          /\ entries'[i].start_time = entries[i].start_time
          /\ entries[i].end_time # Null => entries'[i] = entries[i]
     /\ \A i, j \in 1..Len(events') :
          (/\ events'[i].name = "time:stopped" /\ events'[j].name = "time:stopped"
           /\ events'[i].payload.id = events'[j].payload.id) => i = j]_vars

\* C24: no step of getTaskStatistics, getTimeStatistics, getProductivityMetrics,
\* getTimeReport or getTimeEntries changes the stored tasks or time entries,
\* whether the request ends in success or in an error
C24_ReportsLeaveStore ==
  [][tasks' = tasks /\ entries' = entries]_vars

\* a time report answered over a store that holds a running timer
C24_Witness ==
  /\ trep.pc = "done" /\ trep.op = "report" /\ trep.status = 200
  /\ \E i \in 1..Len(entries) : entries[i].end_time = Null

\* C25: timer exclusivity is per task: a start request is answered 400 only when
\* an open entry exists on the task it names, never because the same user has
\* an open entry on another task
C25_ExclusivityPerTask ==
  [][\A p \in Procs :
       (proc[p].pc = "open" /\ proc'[p] = IdleProc /\ res'.status = 400)
         => OpenOfTask(entries, proc[p].task) # {}]_vars

\* one user with running timers on two different tasks
C25_Witness ==
  \E i, j \in 1..Len(entries) :
    /\ entries[i].user_id = entries[j].user_id
    /\ entries[i].task_id # entries[j].task_id
    /\ entries[i].end_time = Null
    /\ entries[j].end_time = Null

\* the caller of the request p serves does not own the task the request names
NotOwner(p) ==
  ~\E t \in tasks : t.id = proc[p].task /\ t.user_id = proc[p].user

InWindow(e) ==
  /\ e.user_id = trep.user
  /\ e.end_time # Null
  /\ (trep.start_date = Null \/ e.start_time >= trep.start_date)
  /\ (trep.end_date = Null \/ e.end_time <= trep.end_date)

\* C27: an answered getTimeReport lists each closed entry of the caller that
\* lies entirely inside the window exactly once, whole and unclipped, and no
\* other entry, newest start_time first; an answered getTimeStatistics totals
\* the whole durations of the same entries
C27_WindowExactAndNewestFirst ==
  TRAnswered =>
    /\ trep.op = "report" =>
         LET list == trep.body.time_entries
         IN /\ \A i \in 1..Len(entries) :
                 InWindow(entries[i]) <=> \E k \in 1..Len(list) : list[k] = entries[i]
            /\ \A k \in 1..Len(list) : \E i \in 1..Len(entries) : list[k] = entries[i]
            /\ \A k, l \in 1..Len(list) : list[k] = list[l] => k = l
            /\ \A k, l \in 1..Len(list) : k < l => list[k].start_time >= list[l].start_time
    /\ trep.op = "statistics" =>
         trep.body.total_time_ms =
           SumOver([i \in {j \in 1..Len(entries) : InWindow(entries[j])} |->
                      Duration(entries[i])])

\* a report over a window that one closed entry of the caller straddles and
\* another lies inside
C27_Witness ==
  /\ TRAnswered /\ trep.op = "report"
  /\ trep.start_date # Null /\ trep.end_date # Null
  /\ Len(trep.body.time_entries) = 1
  /\ \E i \in 1..Len(entries) :
       /\ entries[i].user_id = trep.user /\ entries[i].end_time # Null
       /\ entries[i].start_time < trep.start_date
       /\ entries[i].end_time >= trep.start_date

\* a report that lists two entries the store holds oldest first
C27_WitnessOrder ==
  /\ TRAnswered /\ trep.op = "report"
  /\ Len(trep.body.time_entries) = 2
  /\ trep.body.time_entries[1].start_time > trep.body.time_entries[2].start_time
  /\ entries[1].start_time < entries[2].start_time

\* the entries a finished getTimeStatistics has to count
Counted == {i \in 1..Len(entries) : InWindow(entries[i])}

\* C28: in an answered getTimeStatistics the values of time_by_priority and the
\* values of time_by_day each add up to total_time_ms; the bucket of a priority
\* holds the durations of the counted entries whose task has that priority, the
\* bucket of a weekday those of the counted entries started on that weekday,
\* and a bucket exists only if at least one counted entry falls in it
C28_BucketsSumToTotal ==
  (TRAnswered /\ trep.op = "statistics") =>
    LET byPriority == trep.body.time_by_priority
        byDay == trep.body.time_by_day
        PriorityOf(i) == JoinedTask(tasks, entries[i]).priority
        DayOf(i) == Weekday(entries[i].start_time)
    IN /\ SumOver(byPriority) = trep.body.total_time_ms
       /\ SumOver(byDay) = trep.body.total_time_ms
       /\ DOMAIN byPriority = {PriorityOf(i) : i \in Counted}
       /\ DOMAIN byDay = {DayOf(i) : i \in Counted}
       /\ \A k \in DOMAIN byPriority :
            byPriority[k] = SumOver([i \in {j \in Counted : PriorityOf(j) = k} |->
                                       Duration(entries[i])])
       /\ \A d \in DOMAIN byDay :
            byDay[d] = SumOver([i \in {j \in Counted : DayOf(j) = d} |->
                                  Duration(entries[i])])

\* two counted entries of one task started on different weekdays
C28_Witness ==
  /\ TRAnswered /\ trep.op = "statistics"
  /\ Cardinality(Counted) = 2
  /\ Cardinality(DOMAIN trep.body.time_by_priority) = 1
  /\ Cardinality(DOMAIN trep.body.time_by_day) = 2
  /\ \A i \in Counted : Duration(entries[i]) > 0

\* C29: every successful getProductivityMetrics answer has
\* 0 <= current_streak <= longest_streak <= number of distinct completion dates
C29_StreaksOrdered ==
  (pm.pc = "done" /\ pm.status = 200)
    => /\ 0 <= pm.body.current_streak
       /\ pm.body.current_streak <= pm.body.longest_streak
       /\ pm.body.longest_streak <= Cardinality(Days(pm.rows))

\* C30: a step publishes task:deleted only if it removed a task of the
\* requester; a delete that names no task of the requester removes nothing and
\* publishes nothing
C30_DeletedOnlyWhenRemoved ==
  [][/\ (/\ Len(events') > Len(events)
         /\ events'[Len(events')].name = "task:deleted")
          => \E t \in tasks \ tasks' :
               t.user_id = treq.user /\ t.id = events'[Len(events')].payload.taskId
     /\ (/\ treq.pc = "called" /\ treq.op = "delete" /\ treq'.pc = "done"
         /\ OwnTaskRows(tasks, treq.id, treq.user) = {})
          => (tasks' = tasks /\ events' = events)]_vars

====
